---- MODULE Spec2Model ----
\* A model of worker/src/index.ts, the image-generation worker of
\* ebook-prompt-suite: origin policy, routing, authentication, body validation,
\* prompt composition, numeric clamping, backend dispatch and response assembly.
\*
\* Texts are sequences of character codes (UTF-16 code units), so that trim,
\* split, startsWith and slice are computed as the runtime computes them.
\* Numbers are counted in quarters (the value 7.5 is 30), so that Math.round and
\* the non-integer guidance fallback are exact.
EXTENDS Integers, Sequences, FiniteSets, TLC

\* ---- Text of the source, as sequences of character codes ----

\* "ABSOLUTELY NO TEXT: no letters, no words, no numbers, no sym..." (307 characters)
antiText ==
  <<65, 66, 83, 79, 76, 85, 84, 69, 76, 89, 32, 78, 79, 32, 84, 69, 88, 84, 58, 32, 110, 111, 32,
    108, 101, 116, 116, 101, 114, 115, 44, 32, 110, 111, 32, 119, 111, 114, 100, 115, 44, 32, 110,
    111, 32, 110, 117, 109, 98, 101, 114, 115, 44, 32, 110, 111, 32, 115, 121, 109, 98, 111, 108,
    115, 44, 32, 110, 111, 32, 115, 105, 103, 110, 97, 103, 101, 44, 32, 110, 111, 32, 108, 97, 98,
    101, 108, 115, 44, 32, 110, 111, 32, 99, 97, 112, 116, 105, 111, 110, 115, 44, 32, 110, 111, 32,
    98, 111, 111, 107, 32, 99, 111, 118, 101, 114, 115, 32, 119, 105, 116, 104, 32, 116, 105, 116,
    108, 101, 115, 44, 32, 110, 111, 32, 109, 105, 115, 115, 112, 101, 108, 108, 105, 110, 103, 115,
    44, 32, 110, 111, 32, 103, 105, 98, 98, 101, 114, 105, 115, 104, 46, 32, 73, 102, 32, 97, 110,
    121, 32, 115, 105, 103, 110, 44, 32, 112, 111, 115, 116, 101, 114, 44, 32, 109, 101, 110, 117,
    44, 32, 108, 97, 98, 101, 108, 44, 32, 112, 97, 99, 107, 97, 103, 105, 110, 103, 44, 32, 115,
    99, 114, 101, 101, 110, 44, 32, 111, 114, 32, 98, 111, 111, 107, 32, 115, 112, 105, 110, 101,
    32, 97, 112, 112, 101, 97, 114, 115, 44, 32, 105, 116, 32, 109, 117, 115, 116, 32, 98, 101, 32,
    66, 76, 65, 78, 75, 32, 97, 110, 100, 32, 85, 78, 82, 69, 65, 68, 65, 66, 76, 69, 46, 32, 78,
    111, 32, 108, 111, 103, 111, 115, 44, 32, 110, 111, 32, 119, 97, 116, 101, 114, 109, 97, 114,
    107, 44, 32, 110, 111, 32, 115, 105, 103, 110, 97, 116, 117, 114, 101, 46>>

\* "Avoid text-bearing elements: posters, banners, street signs,..." (247 characters)
avoidTextProps ==
  <<65, 118, 111, 105, 100, 32, 116, 101, 120, 116, 45, 98, 101, 97, 114, 105, 110, 103, 32, 101,
    108, 101, 109, 101, 110, 116, 115, 58, 32, 112, 111, 115, 116, 101, 114, 115, 44, 32, 98, 97,
    110, 110, 101, 114, 115, 44, 32, 115, 116, 114, 101, 101, 116, 32, 115, 105, 103, 110, 115, 44,
    32, 115, 116, 111, 114, 101, 102, 114, 111, 110, 116, 32, 115, 105, 103, 110, 115, 44, 32, 109,
    101, 110, 117, 115, 44, 32, 85, 73, 32, 115, 99, 114, 101, 101, 110, 115, 44, 32, 108, 97, 98,
    101, 108, 115, 44, 32, 112, 97, 99, 107, 97, 103, 105, 110, 103, 44, 32, 110, 101, 119, 115,
    112, 97, 112, 101, 114, 115, 44, 32, 109, 97, 103, 97, 122, 105, 110, 101, 115, 44, 32, 99, 104,
    97, 108, 107, 98, 111, 97, 114, 100, 115, 44, 32, 119, 104, 105, 116, 101, 98, 111, 97, 114,
    100, 115, 44, 32, 108, 105, 99, 101, 110, 115, 101, 32, 112, 108, 97, 116, 101, 115, 44, 32, 98,
    111, 111, 107, 32, 115, 112, 105, 110, 101, 115, 32, 119, 105, 116, 104, 32, 116, 105, 116, 108,
    101, 115, 46, 32, 80, 114, 101, 102, 101, 114, 32, 112, 108, 97, 105, 110, 32, 115, 117, 114,
    102, 97, 99, 101, 115, 32, 97, 110, 100, 32, 115, 105, 109, 112, 108, 101, 32, 115, 104, 97,
    112, 101, 115, 46>>

\* "Keep key subjects centered with generous margins; avoid impo..." (102 characters)
cropSafe ==
  <<75, 101, 101, 112, 32, 107, 101, 121, 32, 115, 117, 98, 106, 101, 99, 116, 115, 32, 99, 101,
    110, 116, 101, 114, 101, 100, 32, 119, 105, 116, 104, 32, 103, 101, 110, 101, 114, 111, 117,
    115, 32, 109, 97, 114, 103, 105, 110, 115, 59, 32, 97, 118, 111, 105, 100, 32, 105, 109, 112,
    111, 114, 116, 97, 110, 116, 32, 100, 101, 116, 97, 105, 108, 115, 32, 110, 101, 97, 114, 32,
    101, 100, 103, 101, 115, 32, 40, 99, 114, 111, 112, 45, 115, 97, 102, 101, 32, 49, 54, 58, 57,
    41, 46>>

\* "Family-friendly. Natural proportions. No gore. No violence. ..." (90 characters)
baseSafety ==
  <<70, 97, 109, 105, 108, 121, 45, 102, 114, 105, 101, 110, 100, 108, 121, 46, 32, 78, 97, 116,
    117, 114, 97, 108, 32, 112, 114, 111, 112, 111, 114, 116, 105, 111, 110, 115, 46, 32, 78, 111,
    32, 103, 111, 114, 101, 46, 32, 78, 111, 32, 118, 105, 111, 108, 101, 110, 99, 101, 46, 32, 78,
    111, 32, 119, 101, 97, 112, 111, 110, 115, 46, 32, 78, 111, 32, 104, 111, 114, 114, 111, 114,
    32, 105, 109, 97, 103, 101, 114, 121, 46>>

\* "Storybook illustration, warm cinematic lighting, clean compo..." (101 characters)
storybook ==
  <<83, 116, 111, 114, 121, 98, 111, 111, 107, 32, 105, 108, 108, 117, 115, 116, 114, 97, 116, 105,
    111, 110, 44, 32, 119, 97, 114, 109, 32, 99, 105, 110, 101, 109, 97, 116, 105, 99, 32, 108, 105,
    103, 104, 116, 105, 110, 103, 44, 32, 99, 108, 101, 97, 110, 32, 99, 111, 109, 112, 111, 115,
    105, 116, 105, 111, 110, 44, 32, 115, 111, 102, 116, 32, 100, 101, 112, 116, 104, 32, 111, 102,
    32, 102, 105, 101, 108, 100, 44, 32, 104, 105, 103, 104, 32, 100, 101, 116, 97, 105, 108, 46>>

\* "High-quality 3D animated family film look, soft global illum..." (218 characters)
animated3d ==
  <<72, 105, 103, 104, 45, 113, 117, 97, 108, 105, 116, 121, 32, 51, 68, 32, 97, 110, 105, 109, 97,
    116, 101, 100, 32, 102, 97, 109, 105, 108, 121, 32, 102, 105, 108, 109, 32, 108, 111, 111, 107,
    44, 32, 115, 111, 102, 116, 32, 103, 108, 111, 98, 97, 108, 32, 105, 108, 108, 117, 109, 105,
    110, 97, 116, 105, 111, 110, 44, 32, 119, 97, 114, 109, 32, 114, 105, 109, 32, 108, 105, 103,
    104, 116, 44, 32, 100, 101, 116, 97, 105, 108, 101, 100, 32, 109, 97, 116, 101, 114, 105, 97,
    108, 115, 44, 32, 115, 117, 98, 116, 108, 101, 32, 115, 117, 98, 115, 117, 114, 102, 97, 99,
    101, 32, 115, 99, 97, 116, 116, 101, 114, 105, 110, 103, 44, 32, 99, 108, 101, 97, 110, 32, 115,
    104, 97, 112, 101, 115, 44, 32, 99, 105, 110, 101, 109, 97, 116, 105, 99, 32, 100, 101, 112,
    116, 104, 32, 111, 102, 32, 102, 105, 101, 108, 100, 44, 32, 115, 104, 97, 114, 112, 32, 102,
    111, 99, 117, 115, 32, 111, 110, 32, 115, 117, 98, 106, 101, 99, 116, 44, 32, 117, 108, 116,
    114, 97, 32, 99, 108, 101, 97, 110, 32, 114, 101, 110, 100, 101, 114, 46>>

\* "text, letters, words, typography, caption, subtitle, title, ..." (303 characters)
strongNoTextNegative ==
  <<116, 101, 120, 116, 44, 32, 108, 101, 116, 116, 101, 114, 115, 44, 32, 119, 111, 114, 100, 115,
    44, 32, 116, 121, 112, 111, 103, 114, 97, 112, 104, 121, 44, 32, 99, 97, 112, 116, 105, 111,
    110, 44, 32, 115, 117, 98, 116, 105, 116, 108, 101, 44, 32, 116, 105, 116, 108, 101, 44, 32,
    108, 111, 103, 111, 44, 32, 119, 97, 116, 101, 114, 109, 97, 114, 107, 44, 32, 115, 105, 103,
    110, 97, 116, 117, 114, 101, 44, 32, 115, 105, 103, 110, 97, 103, 101, 44, 32, 115, 116, 114,
    101, 101, 116, 32, 115, 105, 103, 110, 44, 32, 108, 97, 98, 101, 108, 44, 32, 109, 101, 110,
    117, 44, 32, 112, 111, 115, 116, 101, 114, 44, 32, 98, 97, 110, 110, 101, 114, 44, 32, 98, 111,
    111, 107, 32, 99, 111, 118, 101, 114, 32, 116, 101, 120, 116, 44, 32, 109, 105, 115, 115, 112,
    101, 108, 108, 105, 110, 103, 44, 32, 103, 105, 98, 98, 101, 114, 105, 115, 104, 44, 32, 108,
    105, 99, 101, 110, 115, 101, 32, 112, 108, 97, 116, 101, 44, 32, 85, 73, 44, 32, 115, 99, 114,
    101, 101, 110, 32, 116, 101, 120, 116, 44, 32, 112, 97, 99, 107, 97, 103, 105, 110, 103, 32,
    116, 101, 120, 116, 44, 32, 108, 111, 119, 32, 113, 117, 97, 108, 105, 116, 121, 44, 32, 98,
    108, 117, 114, 114, 121, 44, 32, 103, 114, 97, 105, 110, 44, 32, 110, 111, 105, 115, 101, 44,
    32, 100, 101, 102, 111, 114, 109, 101, 100, 44, 32, 109, 97, 108, 102, 111, 114, 109, 101, 100,
    32, 104, 97, 110, 100, 115, 44, 32, 101, 120, 116, 114, 97, 32, 102, 105, 110, 103, 101, 114,
    115>>

\* "Bearer "
BearerPrefix == <<66, 101, 97, 114, 101, 114, 32>>

\* "flux"
FluxName == <<102, 108, 117, 120>>

\* "animated3d"
Animated3dName == <<97, 110, 105, 109, 97, 116, 101, 100, 51, 100>>

\* "storybook"
StorybookName == <<115, 116, 111, 114, 121, 98, 111, 111, 107>>

\* "http://localhost:8080"
DefaultOrigin1 ==
  <<104, 116, 116, 112, 58, 47, 47, 108, 111, 99, 97, 108, 104, 111, 115, 116, 58, 56, 48, 56, 48>>

\* "http://127.0.0.1:8080"
DefaultOrigin2 ==
  <<104, 116, 116, 112, 58, 47, 47, 49, 50, 55, 46, 48, 46, 48, 46, 49, 58, 56, 48, 56, 48>>

\* "http://[::1]:8080"
DefaultOrigin3 == <<104, 116, 116, 112, 58, 47, 47, 91, 58, 58, 49, 93, 58, 56, 48, 56, 48>>

\* "https://www.webhtml5.info"
DefaultOrigin4 ==
  <<104, 116, 116, 112, 115, 58, 47, 47, 119, 119, 119, 46, 119, 101, 98, 104, 116, 109, 108, 53,
    46, 105, 110, 102, 111>>

\* "https://webhtml5.info"
DefaultOrigin5 ==
  <<104, 116, 116, 112, 115, 58, 47, 47, 119, 101, 98, 104, 116, 109, 108, 53, 46, 105, 110, 102,
    111>>

\* ---- Input texts: origins, configuration values, credentials ----

\* "https://a.io"
OriginA == <<104, 116, 116, 112, 115, 58, 47, 47, 97, 46, 105, 111>>

\* "https://b.io"
OriginB == <<104, 116, 116, 112, 115, 58, 47, 47, 98, 46, 105, 111>>

\* "https://c.io"
OriginC == <<104, 116, 116, 112, 115, 58, 47, 47, 99, 46, 105, 111>>

\* "https://evil.example"
OriginEvil ==
  <<104, 116, 116, 112, 115, 58, 47, 47, 101, 118, 105, 108, 46, 101, 120, 97, 109, 112, 108, 101>>

\* "https://webhtml5.info/"
OriginSlash ==
  <<104, 116, 116, 112, 115, 58, 47, 47, 119, 101, 98, 104, 116, 109, 108, 53, 46, 105, 110, 102,
    111, 47>>

\* "*"
Star == <<42>>

\* "  "
CfgBlank == <<32, 32>>

\* " https://a.io "
CfgPaddedA == <<32, 104, 116, 116, 112, 115, 58, 47, 47, 97, 46, 105, 111, 32>>

\* "https://b.io, https://c.io"
CfgList ==
  <<104, 116, 116, 112, 115, 58, 47, 47, 98, 46, 105, 111, 44, 32, 104, 116, 116, 112, 115, 58, 47,
    47, 99, 46, 105, 111>>

\* ",, https://b.io ,"
CfgListGaps == <<44, 44, 32, 104, 116, 116, 112, 115, 58, 47, 47, 98, 46, 105, 111, 32, 44>>

\* "s3cret"
Secret == <<115, 51, 99, 114, 101, 116>>

\* "wrong"
WrongToken == <<119, 114, 111, 110, 103>>

\* "Basic "
BasicPrefix == <<66, 97, 115, 105, 99, 32>>

\* "bearer "
LowerBearerPrefix == <<98, 101, 97, 114, 101, 114, 32>>

\* "sdxl"
SdxlName == <<115, 100, 120, 108>>

\* "dalle"
UnknownModelName == <<100, 97, 108, 108, 101>>

\* "noir"
OtherStyleName == <<110, 111, 105, 114>>

\* "blurry"
NegativeText == <<98, 108, 117, 114, 114, 121>>

\* ---- Runtime string operations ----

\* The characters String.prototype.trim removes (WhiteSpace and LineTerminator).
WhiteSpace ==
  {9, 10, 11, 12, 13, 32, 160, 5760, 8232, 8233, 8239, 8287, 12288, 65279} \cup (8192..8202)

\* The characters the Headers class strips from both ends of a header value.
HttpWhitespace == {9, 10, 13, 32}

\* The first position from i upward whose character is outside strip, Len(s) + 1 if none
RECURSIVE FirstKept(_, _, _)
FirstKept(s, i, strip) ==
  IF i > Len(s) \/ s[i] \notin strip THEN i ELSE FirstKept(s, i + 1, strip)

\* The last position from i downward whose character is outside strip, 0 if none
RECURSIVE LastKept(_, _, _)
LastKept(s, i, strip) ==
  IF i < 1 \/ s[i] \notin strip THEN i ELSE LastKept(s, i - 1, strip)

Strip(s, strip) == SubSeq(s, FirstKept(s, 1, strip), LastKept(s, Len(s), strip))

\* s.trim()
Trim(s) == Strip(s, WhiteSpace)

\* s.startsWith(p)
StartsWith(s, p) == Len(s) >= Len(p) /\ SubSeq(s, 1, Len(p)) = p

\* s.slice(k), for 0 <= k
Slice(s, k) == SubSeq(s, k + 1, Len(s))

RECURSIVE SplitFrom(_, _, _, _)
SplitFrom(s, i, cur, acc) ==
  IF i > Len(s) THEN Append(acc, cur)
  ELSE IF s[i] = 44 THEN SplitFrom(s, i + 1, <<>>, Append(acc, cur))
  ELSE SplitFrom(s, i + 1, Append(cur, s[i]), acc)

\* s.split(","): the parts between commas, empty parts included
SplitComma(s) == SplitFrom(s, 1, <<>>, <<>>)

RECURSIVE Digits(_)
Digits(n) == IF n < 10 THEN <<48 + n>> ELSE Append(Digits(n \div 10), 48 + (n % 10))

\* String(x) of a non-negative number x counted in quarters: "6", "7.5", "1.25"
NumToString(q) ==
  Digits(q \div 4) \o
    CASE q % 4 = 0 -> <<>>
      [] q % 4 = 1 -> <<46, 50, 53>>
      [] q % 4 = 2 -> <<46, 53>>
      [] q % 4 = 3 -> <<46, 55, 53>>

\* A number counted in quarters: Num(7, 2) is 7.5
Num(whole, quarters) == 4 * whole + quarters

\* ---- Origin policy ----

DefaultOrigins ==
  {DefaultOrigin1, DefaultOrigin2, DefaultOrigin3, DefaultOrigin4, DefaultOrigin5}

\* env.X?.trim(), "" when X is not set
EnvTrimmed(env, name) == IF name \in DOMAIN env THEN Trim(env[name]) ELSE <<>>

parseAllowedOrigins(env) ==
  LET single == IF EnvTrimmed(env, "ALLOWED_ORIGIN") # <<>>
                THEN {EnvTrimmed(env, "ALLOWED_ORIGIN")} ELSE {}
      parts == IF EnvTrimmed(env, "ALLOWED_ORIGINS") # <<>>
               THEN SplitComma(env["ALLOWED_ORIGINS"]) ELSE <<>>
      list == {Trim(parts[i]) : i \in DOMAIN parts} \ {<<>>}
  IN DefaultOrigins \cup single \cup list

\* request.headers.get(name) || ""
HeaderOrEmpty(request, name) ==
  IF name \in DOMAIN request.headers THEN request.headers[name] ELSE <<>>

FixedCorsHeaders ==
  [k \in {"Vary", "Access-Control-Allow-Methods", "Access-Control-Allow-Headers",
          "Access-Control-Max-Age", "Access-Control-Expose-Headers"} |->
     CASE k = "Vary" -> "Origin"
       [] k = "Access-Control-Allow-Methods" -> "POST, OPTIONS"
       [] k = "Access-Control-Allow-Headers" -> "Content-Type, Authorization"
       [] k = "Access-Control-Max-Age" -> "86400"
       [] k = "Access-Control-Expose-Headers" ->
            "X-Model, X-Steps, X-Style, X-Num-Steps, X-Guidance, X-Prompt-Chars"]

\* corsHeaders reflecting every origin the request names
corsHeaders_reflectAny(request, env) ==
  LET origin == HeaderOrEmpty(request, "Origin")
  IN IF origin # <<>>
     THEN ("Access-Control-Allow-Origin" :> origin) @@ FixedCorsHeaders
     ELSE FixedCorsHeaders

corsHeaders(request, env) ==
  LET origin == HeaderOrEmpty(request, "Origin")
      allowed == parseAllowedOrigins(env)
  IN IF origin # <<>> /\ origin \in allowed
     THEN ("Access-Control-Allow-Origin" :> origin) @@ FixedCorsHeaders
     ELSE FixedCorsHeaders

\* respond adding the allowed origin only, the fixed headers left to the caller
respond_originOnly(request, env, body, init) ==
  [status |-> init.status,
   headers |->
     [k \in DOMAIN corsHeaders(request, env) \cap {"Access-Control-Allow-Origin"} |->
        corsHeaders(request, env)[k]] @@ init.headers,
   body |-> body]

\* respond(request, env, body, init): init.headers first, then every CORS header
\* set over them (Headers.set replaces a header of the same name).
respond(request, env, body, init) ==
  [status |-> init.status,
   headers |-> corsHeaders(request, env) @@ init.headers,
   body |-> body]

NoHeaders == [k \in {} |-> ""]
TextBody(s) == [t |-> "text", v |-> s]
NullBody == [t |-> "null"]

\* ---- JSON values of a parsed body ----

Undefined == [t |-> "undefined"]
JNull == [t |-> "null"]
JNum(q) == [t |-> "num", v |-> q]
\* 1e999 parses to Infinity: typeof "number", not finite
JInf == [t |-> "inf"]
JStr(s) == [t |-> "str", v |-> s]
JBool(b) == [t |-> "bool", v |-> b]
JArr == [t |-> "arr"]
JObj(f) == [t |-> "obj", v |-> f]
EmptyObj == [k \in {} |-> Undefined]

\* body.name: undefined unless body is an object holding the field
Field(body, name) ==
  IF body.t = "obj" /\ name \in DOMAIN body.v THEN body.v[name] ELSE Undefined

\* !x
Falsy(x) ==
  \/ x.t \in {"undefined", "null"}
  \/ x.t = "bool" /\ ~x.v
  \/ x.t = "num" /\ x.v = 0
  \/ x.t = "str" /\ x.v = <<>>

\* String(x) and `${x}`, for a string or a non-negative finite number
ToText(x) == IF x.t = "str" THEN x.v ELSE NumToString(x.v)

\* x ?? d
Coalesce(x, d) == IF x.t \in {"undefined", "null"} THEN d ELSE x

\* ---- Prompt composer ----

MAX_PROMPT_CHARS == 2048

\* trimToMaxPrompt keeping the start of the prompt
trimToMaxPrompt_keepStart(s, maxChars) ==
  LET t == Trim(s)
  IN IF Len(t) <= maxChars THEN t ELSE SubSeq(t, 1, maxChars)

trimToMaxPrompt(s, maxChars) ==
  LET t == Trim(s)
  IN IF Len(t) <= maxChars THEN t ELSE Slice(t, Len(t) - maxChars)

\* buildStyledPrompt with the user prompt after the clauses
buildStyledPrompt_promptLast(userPrompt, style) ==
  LET styleLine == IF style = JStr(Animated3dName) THEN animated3d ELSE storybook
      full == cropSafe \o <<10>> \o styleLine \o <<10>> \o antiText \o <<10>>
                \o avoidTextProps \o <<10>> \o baseSafety \o <<10, 10>> \o Trim(userPrompt)
  IN trimToMaxPrompt(full, MAX_PROMPT_CHARS)

buildStyledPrompt(userPrompt, style) ==
  LET styleLine == IF style = JStr(Animated3dName) THEN animated3d ELSE storybook
      full == Trim(userPrompt) \o <<10, 10>> \o cropSafe \o <<10>> \o styleLine \o <<10>>
                \o antiText \o <<10>> \o avoidTextProps \o <<10>> \o baseSafety
  IN trimToMaxPrompt(full, MAX_PROMPT_CHARS)

\* ---- Input normalizer ----

Min2(a, b) == IF a <= b THEN a ELSE b
Max2(a, b) == IF a >= b THEN a ELSE b

\* Math.round, on quarters: the nearest integer, halves upward
Round(q) == ((q + 2) \div 4) * 4
\* Math.floor, on quarters
Floor(q) == (q \div 4) * 4

\* clampInt without the upper bound
clampInt_noMax(n, min, max, fallback) ==
  LET v == IF n.t = "num" THEN Round(n.v) ELSE fallback
  IN Max2(min, v)

clampInt(n, min, max, fallback) ==
  LET v == IF n.t = "num" THEN Round(n.v) ELSE fallback
  IN Min2(max, Max2(min, v))

clampNum(n, min, max, fallback) ==
  LET v == IF n.t = "num" THEN n.v ELSE fallback
  IN Min2(max, Max2(min, v))

\* ---- Handler ----

\* env:       the configuration (Env): the settings that are set, by name
\* request:   the request being handled: method, path, headers, body
\* pc:        where fetch stands: "start", "json" (awaiting request.json()),
\*            "ai" (awaiting env.AI.run), "done"
\* readBody:  request.json() has been called
\* locals:    style and inputs of the handler while it awaits env.AI.run
\* aiCalls:   the env.AI.run calls issued so far, in order
\* aiOutcome: how env.AI.run ended: not yet, returned a value, threw
\* outcome:   how fetch ended: not yet, a response, an exception out of fetch
VARIABLES env, request, pc, readBody, locals, aiCalls, aiOutcome, outcome

vars == <<env, request, pc, readBody, locals, aiCalls, aiOutcome, outcome>>

Responded(r) == [kind |-> "response", response |-> r]
Thrown(e) == [kind |-> "throw", error |-> e]
Pending == [kind |-> "none"]

Pathname(req) == req.path

\* Authorized comparing the token after trimming it
Authorized_trimmedToken(req, e) ==
  IF "API_KEY" \in DOMAIN e /\ e["API_KEY"] # <<>>
  THEN LET auth == HeaderOrEmpty(req, "Authorization")
           token == IF StartsWith(auth, BearerPrefix) THEN Trim(Slice(auth, 7)) ELSE <<>>
       IN token = e["API_KEY"]
  ELSE TRUE

\* if (env.API_KEY) { ... token !== env.API_KEY }: TRUE when the request is let through
Authorized(req, e) ==
  IF "API_KEY" \in DOMAIN e /\ e["API_KEY"] # <<>>
  THEN LET auth == HeaderOrEmpty(req, "Authorization")
           token == IF StartsWith(auth, BearerPrefix) THEN Slice(auth, 7) ELSE <<>>
       IN token = e["API_KEY"]
  ELSE TRUE

\* Route answering OPTIONS only after the path check
Route_optionsAfterPath(req, e) ==
  IF Pathname(req) = "/__version"
  THEN Responded(respond(req, e,
         TextBody("ebook-image-forge v5 (prompt<=2048 + resilient CORS + stronger no-text)"),
         [status |-> 200, headers |-> NoHeaders]))
  ELSE IF Pathname(req) # "/api/generate"
  THEN Responded(respond(req, e, TextBody("Not found"), [status |-> 404, headers |-> NoHeaders]))
  ELSE IF req.method = "OPTIONS"
  THEN Responded(respond(req, e, NullBody, [status |-> 204, headers |-> NoHeaders]))
  ELSE IF req.method # "POST"
  THEN Responded(respond(req, e, TextBody("Method not allowed"),
         [status |-> 405, headers |-> NoHeaders]))
  ELSE IF ~Authorized(req, e)
  THEN Responded(respond(req, e, TextBody("Unauthorized"), [status |-> 401, headers |-> NoHeaders]))
  ELSE [kind |-> "json"]

\* fetch, from its entry to the first await: the response returned, or "json"
\* when the handler goes on to read the body.
Route(req, e) ==
  IF Pathname(req) = "/__version"
  THEN Responded(respond(req, e,
         TextBody("ebook-image-forge v5 (prompt<=2048 + resilient CORS + stronger no-text)"),
         [status |-> 200, headers |-> NoHeaders]))
  ELSE IF req.method = "OPTIONS"
  THEN Responded(respond(req, e, NullBody, [status |-> 204, headers |-> NoHeaders]))
  ELSE IF Pathname(req) # "/api/generate"
  THEN Responded(respond(req, e, TextBody("Not found"), [status |-> 404, headers |-> NoHeaders]))
  ELSE IF req.method # "POST"
  THEN Responded(respond(req, e, TextBody("Method not allowed"),
         [status |-> 405, headers |-> NoHeaders]))
  ELSE IF ~Authorized(req, e)
  THEN Responded(respond(req, e, TextBody("Unauthorized"), [status |-> 401, headers |-> NoHeaders]))
  ELSE [kind |-> "json"]

\* if (!body.prompt || body.prompt.trim().length < 3): "throw" when evaluating the
\* condition raises a TypeError (body is null, or prompt is truthy and has no trim)
PromptCheck(body) ==
  IF body.t = "null" THEN "throw"
  ELSE LET p == Field(body, "prompt")
       IN IF Falsy(p) THEN "reject"
          ELSE IF p.t # "str" THEN "throw"
          ELSE IF Len(Trim(p.v)) < 3 THEN "reject"
          ELSE "ok"

\* SelectModel sending every model other than "sdxl" to flux
SelectModel_unknownIsFlux(body) ==
  IF Field(body, "model") = JStr(SdxlName) THEN Field(body, "model") ELSE JStr(FluxName)

\* const model = body.model ?? "flux"
SelectModel(body) == Coalesce(Field(body, "model"), JStr(FluxName))
\* const style = body.style ?? "storybook"
SelectStyle(body) == Coalesce(Field(body, "style"), JStr(StorybookName))

IsFlux(model) == model = JStr(FluxName)

\* ...(typeof body.seed === "number" ? { seed: Math.floor(body.seed) } : {})
SeedPart(body) ==
  LET s == Field(body, "seed")
  IN IF s.t = "num" THEN ("seed" :> JNum(Floor(s.v)))
     ELSE IF s.t = "inf" THEN ("seed" :> JInf)
     ELSE EmptyObj

\* The inputs object of the flux call
FluxInputs(body) ==
  ("prompt" :> JStr(buildStyledPrompt(Field(body, "prompt").v, SelectStyle(body))))
  @@ ("steps" :> JNum(clampInt(Field(body, "steps"), Num(1, 0), Num(8, 0), Num(6, 0))))
  @@ SeedPart(body)

\* The inputs object of the sdxl call
SdxlInputs(body) ==
  LET np == Field(body, "negative_prompt")
  IN ("prompt" :> JStr(buildStyledPrompt(Field(body, "prompt").v, SelectStyle(body))))
     @@ ("negative_prompt" :>
           JStr(IF Falsy(np) THEN strongNoTextNegative
                ELSE ToText(np) \o <<44, 32>> \o strongNoTextNegative))
     @@ ("width" :> JNum(clampInt(Field(body, "width"), Num(256, 0), Num(2048, 0), Num(1344, 0))))
     @@ ("height" :> JNum(clampInt(Field(body, "height"), Num(256, 0), Num(2048, 0), Num(768, 0))))
     @@ ("num_steps" :> JNum(clampInt(Field(body, "num_steps"), Num(1, 0), Num(20, 0), Num(20, 0))))
     @@ ("guidance" :> JNum(clampNum(Field(body, "guidance"), Num(1, 0), Num(20, 0), Num(7, 2))))
     @@ SeedPart(body)

FluxModelId == "@cf/black-forest-labs/flux-1-schnell"
SdxlModelId == "@cf/stabilityai/stable-diffusion-xl-base-1.0"

\* The env.AI.run call the handler issues for a validated body
AiCall(body) ==
  IF IsFlux(SelectModel(body))
  THEN [model |-> FluxModelId, inputs |-> FluxInputs(body)]
  ELSE [model |-> SdxlModelId, inputs |-> SdxlInputs(body)]

\* What new Headers(init.headers) stores for a value: the text, stripped
HeaderValue(x) == Strip(ToText(x), HttpWhitespace)

\* new Headers(...) throws a TypeError for a value holding NUL, LF or CR, or a
\* character outside Latin-1
HeaderValueOk(x) ==
  \A i \in DOMAIN HeaderValue(x) :
    HeaderValue(x)[i] \notin {0, 10, 13} /\ HeaderValue(x)[i] <= 255

\* const msg = (e && (e.message || String(e))) ? String(e.message || e) : "AI run error"
ErrorMessage(e) ==
  CASE e.t = "error" /\ e.message # "" -> e.message
    [] e.t = "error" /\ e.message = "" -> "Error"
    [] e.t = "string" /\ e.v # "" -> e.v
    [] OTHER -> "AI run error"

\* The catch blocks of both backends
UpstreamError(req, e, err) ==
  respond(req, e, TextBody("Upstream AI error: " \o ErrorMessage(err)),
          [status |-> 502, headers |-> NoHeaders])

InvalidBase64 == [t |-> "error", message |-> "atob() called with invalid base64-encoded data"]
InvalidHeader == [t |-> "error", message |-> "Invalid header value"]

\* The flux path after env.AI.run returned result r
FluxReturned(req, e, l, r) ==
  IF r.kind # "object" \/ r.image \notin {"valid", "invalid"}
  THEN respond(req, e, TextBody("Model returned no image"),
               [status |-> 502, headers |-> NoHeaders])
  ELSE IF r.image = "invalid" THEN UpstreamError(req, e, InvalidBase64)
  ELSE IF ~HeaderValueOk(l.style) THEN UpstreamError(req, e, InvalidHeader)
  ELSE respond(req, e, [t |-> "bytes", v |-> "decoded image"],
         [status |-> 200,
          headers |->
            [k \in {"Content-Type", "Cache-Control", "X-Model"} |->
               CASE k = "Content-Type" -> "image/jpeg"
                 [] k = "Cache-Control" -> "no-store"
                 [] k = "X-Model" -> "flux-1-schnell"]
            @@ ("X-Steps" :> NumToString(l.inputs["steps"].v))
            @@ ("X-Style" :> HeaderValue(l.style))
            @@ ("X-Prompt-Chars" :> NumToString(Num(Len(l.inputs["prompt"].v), 0)))])

\* The sdxl path after env.AI.run returned result r
SdxlReturned(req, e, l, r) ==
  IF ~HeaderValueOk(l.style) THEN UpstreamError(req, e, InvalidHeader)
  ELSE respond(req, e, [t |-> "result", v |-> r],
         [status |-> 200,
          headers |->
            [k \in {"Content-Type", "Cache-Control", "X-Model"} |->
               CASE k = "Content-Type" -> "image/jpeg"
                 [] k = "Cache-Control" -> "no-store"
                 [] k = "X-Model" -> "sdxl-base-1.0"]
            @@ ("X-Num-Steps" :> NumToString(l.inputs["num_steps"].v))
            @@ ("X-Guidance" :> NumToString(l.inputs["guidance"].v))
            @@ ("X-Style" :> HeaderValue(l.style))
            @@ ("X-Prompt-Chars" :> NumToString(Num(Len(l.inputs["prompt"].v), 0)))])

NoLocals == [model |-> "none"]

\* What env.AI.run may resolve to
AiResults ==
  {[kind |-> "nullish"], [kind |-> "bytes"]}
  \cup {[kind |-> "object", image |-> i] :
          i \in {"absent", "empty", "not a string", "valid", "invalid"}}

\* What env.AI.run may throw
AiErrors ==
  {[t |-> "error", message |-> "3030: model overloaded"], [t |-> "error", message |-> ""],
   [t |-> "string", v |-> "quota exceeded"], [t |-> "string", v |-> ""], [t |-> "undefined"]}

\* Entry of fetch up to the first await (lines 159-195)
Start ==
  /\ pc = "start"
  /\ LET r == Route(request, env)
     IN IF r.kind = "json"
        THEN pc' = "json" /\ readBody' = TRUE /\ outcome' = outcome
        ELSE pc' = "done" /\ readBody' = readBody /\ outcome' = r
  /\ UNCHANGED <<env, request, locals, aiCalls, aiOutcome>>

\* request.json() rejects: the catch returns 400
JsonRejects ==
  /\ pc = "json"
  /\ request.body.t = "invalid"
  /\ pc' = "done"
  /\ outcome' = Responded(respond(request, env, TextBody("Invalid JSON"),
                                  [status |-> 400, headers |-> NoHeaders]))
  /\ UNCHANGED <<env, request, readBody, locals, aiCalls, aiOutcome>>

\* request.json() resolves: prompt validation, then composition, clamping and the
\* env.AI.run call of the selected backend (lines 200-215, 251-276)
JsonResolves ==
  /\ pc = "json"
  /\ request.body.t # "invalid"
  /\ LET body == request.body
         chk == PromptCheck(body)
     IN CASE chk = "throw" ->
               /\ pc' = "done"
               /\ outcome' = Thrown("TypeError")
               /\ UNCHANGED <<locals, aiCalls>>
          [] chk = "reject" ->
               /\ pc' = "done"
               /\ outcome' = Responded(respond(request, env, TextBody("prompt is required"),
                                               [status |-> 400, headers |-> NoHeaders]))
               /\ UNCHANGED <<locals, aiCalls>>
          [] chk = "ok" ->
               /\ pc' = "ai"
               /\ locals' = [model |-> AiCall(body).model, style |-> SelectStyle(body),
                             inputs |-> AiCall(body).inputs]
               /\ aiCalls' = Append(aiCalls, AiCall(body))
               /\ outcome' = outcome
  /\ UNCHANGED <<env, request, readBody, aiOutcome>>

\* env.AI.run resolves
AiReturns ==
  /\ pc = "ai"
  /\ \E r \in AiResults :
       /\ aiOutcome' = [kind |-> "returned", value |-> r]
       /\ outcome' = Responded(IF locals.model = FluxModelId
                               THEN FluxReturned(request, env, locals, r)
                               ELSE SdxlReturned(request, env, locals, r))
  /\ pc' = "done"
  /\ UNCHANGED <<env, request, readBody, locals, aiCalls>>

\* AiThrows calling the backend a second time before it gives up
AiThrows_retryOnce ==
  /\ pc = "ai"
  /\ \E err \in AiErrors :
       IF Len(aiCalls) < 2
       THEN /\ aiCalls' = Append(aiCalls, aiCalls[1])
            /\ UNCHANGED <<pc, aiOutcome, outcome>>
       ELSE /\ aiOutcome' = [kind |-> "threw", value |-> err]
            /\ outcome' = Responded(UpstreamError(request, env, err))
            /\ pc' = "done"
            /\ UNCHANGED aiCalls
  /\ UNCHANGED <<env, request, readBody, locals>>

\* env.AI.run rejects
AiThrows ==
  /\ pc = "ai"
  /\ \E err \in AiErrors :
       /\ aiOutcome' = [kind |-> "threw", value |-> err]
       /\ outcome' = Responded(UpstreamError(request, env, err))
  /\ pc' = "done"
  /\ UNCHANGED <<env, request, readBody, locals, aiCalls>>

Next == Start \/ JsonRejects \/ JsonResolves \/ AiReturns \/ AiThrows

\* ---- Requests and configurations ----

\* Blanks of padding tried on each side of a user prompt
MaxPad == 1
\* User prompts of 0..MaxShort characters: below, at and above the minimum of 3
MaxShort == 4
\* User prompts within MaxOver characters of the length that fills the budget exactly
MaxOver == 2
\* Numeric inputs within MaxDelta quarters of each minimum, maximum and fallback
MaxDelta == 3

Blanks(n) == [i \in 1..n |-> 32]
Letters(n) == [i \in 1..n |-> 97 + (i % 26)]

\* The fixed clauses as they follow the user prompt, for each style line
ClauseBlock(styleLine) ==
  cropSafe \o <<10>> \o styleLine \o <<10>> \o antiText \o <<10>> \o avoidTextProps
    \o <<10>> \o baseSafety

\* The user prompt length at which the concatenation is exactly MAX_PROMPT_CHARS long
Room(styleLine) == MAX_PROMPT_CHARS - 2 - Len(ClauseBlock(styleLine))

PromptLengths ==
  (0..MaxShort)
  \cup {Room(line) + d : line \in {storybook, animated3d}, d \in (-MaxOver)..MaxOver}

UserPrompts ==
  {Blanks(a) \o Letters(n) \o Blanks(b) : a \in 0..MaxPad, b \in 0..MaxPad, n \in PromptLengths}

GoodPrompt == JStr(Letters(17))

\* An object from a set of <<name, value>> pairs, fields with value Undefined left out
Obj(pairs) ==
  JObj([k \in {p[1] : p \in {q \in pairs : q[2] # Undefined}} |->
          (CHOOSE p \in pairs : p[1] = k)[2]])

NonNumbers == {Undefined, JNull, JInf, JStr(<<53>>), JBool(TRUE)}

\* The values tried for a numeric field with bounds lo..hi and fallback fb (quarters)
NumInputs(lo, hi, fb) ==
  NonNumbers
  \cup {JNum(x + d) : x \in {lo, hi, fb}, d \in (-MaxDelta)..MaxDelta}
  \cup {JNum(0), JNum(-Num(5, 0)), JNum(Num(99999, 0))}

PromptValues ==
  {Undefined, JNull, JNum(0), JNum(Num(5, 0)), JInf, JBool(FALSE), JBool(TRUE), JArr,
   JObj(EmptyObj)}
  \cup {JStr(p) : p \in UserPrompts}

ModelValues ==
  {Undefined, JNull, JStr(FluxName), JStr(SdxlName), JStr(UnknownModelName), JStr(<<>>),
   JNum(Num(1, 0)), JBool(TRUE)}

StyleValues ==
  {Undefined, JNull, JStr(StorybookName), JStr(Animated3dName), JStr(OtherStyleName),
   JStr(<<32>> \o OtherStyleName), JStr(<<110, 10, 114>>), JStr(<<9731>>), JNum(Num(5, 0))}

SeedValues == {Undefined, JNum(Num(7, 3)), JNum(-Num(2, 1)), JInf, JStr(<<55>>)}

PromptBodies ==
  {Obj({<<"prompt", p>>, <<"model", m>>, <<"style", s>>}) :
     p \in PromptValues, m \in {Undefined, JStr(SdxlName)},
     s \in {Undefined, JStr(Animated3dName)}}

DispatchBodies ==
  {Obj({<<"prompt", GoodPrompt>>, <<"model", m>>, <<"style", s>>}) :
     m \in ModelValues, s \in StyleValues}

FluxBodies ==
  {Obj({<<"prompt", GoodPrompt>>, <<"steps", x>>, <<"seed", sd>>}) :
     x \in NumInputs(Num(1, 0), Num(8, 0), Num(6, 0)), sd \in SeedValues}

SdxlFieldBodies ==
  {Obj({<<"prompt", GoodPrompt>>, <<"model", JStr(SdxlName)>>, <<"width", x>>}) :
     x \in NumInputs(Num(256, 0), Num(2048, 0), Num(1344, 0))}
  \cup {Obj({<<"prompt", GoodPrompt>>, <<"model", JStr(SdxlName)>>, <<"height", x>>}) :
          x \in NumInputs(Num(256, 0), Num(2048, 0), Num(768, 0))}
  \cup {Obj({<<"prompt", GoodPrompt>>, <<"model", JStr(SdxlName)>>, <<"num_steps", x>>}) :
          x \in NumInputs(Num(1, 0), Num(20, 0), Num(20, 0))}
  \cup {Obj({<<"prompt", GoodPrompt>>, <<"model", JStr(SdxlName)>>, <<"guidance", x>>}) :
          x \in NumInputs(Num(1, 0), Num(20, 0), Num(7, 2))}

SdxlMixedBodies ==
  {Obj({<<"prompt", GoodPrompt>>, <<"model", JStr(SdxlName)>>, <<"width", w>>, <<"height", h>>,
        <<"num_steps", n>>, <<"guidance", g>>, <<"negative_prompt", np>>, <<"seed", sd>>}) :
     w \in {Undefined, JNum(Num(99999, 0))}, h \in {Undefined, JNum(Num(100, 2))},
     n \in {Undefined, JNum(Num(12, 2))}, g \in {Undefined, JNum(-Num(5, 0)), JNum(Num(7, 1))},
     np \in {Undefined, JStr(<<>>), JStr(NegativeText)}, sd \in {Undefined, JNum(Num(7, 3))}}

OtherBodies ==
  {[t |-> "invalid"], JNull, JNum(Num(20, 0)), JStr(FluxName), JBool(TRUE), JArr, JObj(EmptyObj)}

Bodies ==
  PromptBodies \cup DispatchBodies \cup FluxBodies \cup SdxlFieldBodies \cup SdxlMixedBodies
    \cup OtherBodies

\* One body for each way a POST to /api/generate can end
SampleBodies ==
  {[t |-> "invalid"], JNull, Obj({<<"prompt", JStr(Letters(2))>>}), Obj({<<"prompt", GoodPrompt>>}),
   Obj({<<"prompt", GoodPrompt>>, <<"model", JStr(SdxlName)>>})}

Methods == {"GET", "POST", "OPTIONS"}
Paths == {"/__version", "/api/generate", "/other"}

\* Stands for a header or a setting that is not there
Absent == <<0>>

\* The headers of a request, from its Origin and Authorization values
Headers(origin, auth) ==
  [k \in {p[1] : p \in {q \in {<<"Origin", origin>>, <<"Authorization", auth>>} :
                            q[2] # Absent}} |->
     IF k = "Origin" THEN origin ELSE auth]

OriginValues ==
  {Absent, <<>>, DefaultOrigin1, DefaultOrigin4, OriginA, OriginB, OriginC, OriginEvil,
   OriginSlash, Star}

AuthValues ==
  {Absent, <<>>, BearerPrefix \o Secret, BearerPrefix \o WrongToken, BearerPrefix,
   BasicPrefix \o Secret, LowerBearerPrefix \o Secret, Secret,
   BearerPrefix \o <<32>> \o Secret, BearerPrefix \o Secret \o <<32>>}

\* A configuration from its three optional texts
Config(key, single, list) ==
  [k \in {p[1] : p \in {q \in {<<"API_KEY", key>>, <<"ALLOWED_ORIGIN", single>>,
                                <<"ALLOWED_ORIGINS", list>>} : q[2] # Absent}} |->
     CASE k = "API_KEY" -> key
       [] k = "ALLOWED_ORIGIN" -> single
       [] k = "ALLOWED_ORIGINS" -> list]

SingleValues == {Absent, <<>>, CfgBlank, CfgPaddedA, Star}
ListValues == {Absent, CfgBlank, CfgList, CfgListGaps, Star}
KeyValues == {Absent, <<>>, Secret}

\* Origin policy: every origin against every allowlist, for each way a request ends
CorsInputs ==
  {[env |-> Config(key, single, list),
    request |-> [method |-> rq[1], path |-> rq[2],
                 headers |-> Headers(origin, BearerPrefix \o rq[3]), body |-> rq[4]]] :
     key \in {Absent, Secret}, single \in SingleValues, list \in ListValues,
     origin \in OriginValues,
     rq \in {<<"GET", "/__version", Secret, JNull>>, <<"OPTIONS", "/other", Secret, JNull>>,
             <<"GET", "/other", Secret, JNull>>, <<"GET", "/api/generate", Secret, JNull>>}
            \cup {<<"POST", "/api/generate", tok, b>> :
                    tok \in {Secret, WrongToken}, b \in SampleBodies}}

\* Routing and authentication: every method, path, key and Authorization value
AuthInputs ==
  {[env |-> Config(key, Absent, Absent),
    request |-> [method |-> m, path |-> p, headers |-> Headers(Absent, auth), body |-> b]] :
     key \in KeyValues, auth \in AuthValues, m \in Methods, p \in Paths, b \in SampleBodies}

\* Bodies: every body, from an allowed origin, with no key configured
BodyInputs ==
  {[env |-> Config(Absent, Absent, Absent),
    request |-> [method |-> "POST", path |-> "/api/generate",
                 headers |-> Headers(DefaultOrigin1, Absent), body |-> b]] :
     b \in Bodies}

Inputs == CorsInputs \cup AuthInputs \cup BodyInputs

Init ==
  /\ \E i \in Inputs : env = i.env /\ request = i.request
  /\ pc = "start"
  /\ readBody = FALSE
  /\ locals = NoLocals
  /\ aiCalls = <<>>
  /\ aiOutcome = [kind |-> "none"]
  /\ outcome = Pending

Spec == Init /\ [][Next]_vars


\* ---- Properties ----

Done == pc = "done"
HasResponse == outcome.kind = "response"
Status == outcome.response.status
ResponseHeaders == outcome.response.headers
IsGenerate == request.method = "POST" /\ request.path = "/api/generate"

\* o is one of the comma-separated entries of text, trimmed and not empty
IsListEntry(text, o) ==
  /\ o # <<>>
  /\ \E i \in 1..(Len(text) + 1), j \in 0..Len(text) :
       /\ i <= j + 1
       /\ i = 1 \/ text[i - 1] = 44
       /\ j = Len(text) \/ text[j + 1] = 44
       /\ \A k \in i..j : text[k] # 44
       /\ Trim(SubSeq(text, i, j)) = o

\* o is in the allowlist the configuration describes
InAllowlist(e, o) ==
  \/ o \in {DefaultOrigin1, DefaultOrigin2, DefaultOrigin3, DefaultOrigin4, DefaultOrigin5}
  \/ "ALLOWED_ORIGIN" \in DOMAIN e /\ o # <<>> /\ o = Trim(e["ALLOWED_ORIGIN"])
  \/ "ALLOWED_ORIGINS" \in DOMAIN e /\ IsListEntry(e["ALLOWED_ORIGINS"], o)

OriginSent == "Origin" \in DOMAIN request.headers
AllowOriginSet == "Access-Control-Allow-Origin" \in DOMAIN ResponseHeaders

\* The origin echo of C1: Access-Control-Allow-Origin is the request's Origin when
\* that exact text is in the allowlist, and is absent in every other case.
OriginEchoed ==
  HasResponse =>
    IF OriginSent /\ InAllowlist(env, request.headers["Origin"])
    THEN AllowOriginSet
         /\ ResponseHeaders["Access-Control-Allow-Origin"] = request.headers["Origin"]
    ELSE ~AllowOriginSet

\* C1 as stated: the origin echo, and Access-Control-Allow-Origin is never "" or "*",
\* for every request and every configuration.
C1_AsStated ==
  /\ OriginEchoed
  /\ HasResponse /\ AllowOriginSet =>
       ResponseHeaders["Access-Control-Allow-Origin"] \notin {<<>>, Star}

\* C1 amended: the origin echo; Access-Control-Allow-Origin is never "", and it is
\* "*" only when "*" is itself an allowlist entry of the configuration and is the
\* Origin the request sent.
C1_OriginEcho ==
  /\ OriginEchoed
  /\ HasResponse /\ AllowOriginSet =>
       /\ ResponseHeaders["Access-Control-Allow-Origin"] # <<>>
       /\ ResponseHeaders["Access-Control-Allow-Origin"] = Star =>
            /\ OriginSent /\ request.headers["Origin"] = Star
            /\ \/ "ALLOWED_ORIGIN" \in DOMAIN env /\ Trim(env["ALLOWED_ORIGIN"]) = Star
               \/ "ALLOWED_ORIGINS" \in DOMAIN env /\ IsListEntry(env["ALLOWED_ORIGINS"], Star)

\* An origin that is in the allowlist only after its list entry is trimmed is
\* echoed on an error response.
C1_Witness ==
  /\ HasResponse /\ Status = 401
  /\ OriginSent /\ request.headers["Origin"] = OriginC
  /\ "ALLOWED_ORIGINS" \in DOMAIN env /\ env["ALLOWED_ORIGINS"] = CfgList
  /\ AllowOriginSet /\ ResponseHeaders["Access-Control-Allow-Origin"] = OriginC

\* C2: every response carries the five fixed CORS headers with their fixed values,
\* whatever its status and whatever headers the response adds.
C2_FixedCorsHeaders ==
  HasResponse =>
    /\ Status \in {200, 204, 400, 401, 404, 405, 502}
    /\ {"Vary", "Access-Control-Allow-Methods", "Access-Control-Allow-Headers",
        "Access-Control-Max-Age", "Access-Control-Expose-Headers"} \subseteq DOMAIN ResponseHeaders
    /\ ResponseHeaders["Vary"] = "Origin"
    /\ ResponseHeaders["Access-Control-Allow-Methods"] = "POST, OPTIONS"
    /\ ResponseHeaders["Access-Control-Allow-Headers"] = "Content-Type, Authorization"
    /\ ResponseHeaders["Access-Control-Max-Age"] = "86400"
    /\ ResponseHeaders["Access-Control-Expose-Headers"] =
         "X-Model, X-Steps, X-Style, X-Num-Steps, X-Guidance, X-Prompt-Chars"

\* A 200 response of the sdxl path, with its own headers beside the CORS headers
C2_Witness ==
  /\ HasResponse /\ Status = 200
  /\ {"Content-Type", "X-Model", "X-Guidance", "Vary", "Access-Control-Max-Age"}
       \subseteq DOMAIN ResponseHeaders

SecretConfigured == "API_KEY" \in DOMAIN env /\ env["API_KEY"] # <<>>
BearerOfSecret ==
  "Authorization" \in DOMAIN request.headers
  /\ request.headers["Authorization"] = BearerPrefix \o env["API_KEY"]

\* C3: a POST to /api/generate goes on to read its body when no secret is
\* configured, or when Authorization is exactly "Bearer " followed by the secret;
\* otherwise it ends at once in 401 "Unauthorized", body unread, no upstream call.
C3_AuthGate ==
  IsGenerate /\ pc # "start" =>
    IF ~SecretConfigured \/ BearerOfSecret
    THEN readBody
    ELSE /\ Done /\ HasResponse /\ Status = 401
         /\ outcome.response.body = [t |-> "text", v |-> "Unauthorized"]
         /\ ~readBody
         /\ aiCalls = <<>>

\* A token that differs from the secret only by a blank is refused, with a body
\* that would have been valid.
C3_Witness ==
  /\ IsGenerate /\ SecretConfigured
  /\ "Authorization" \in DOMAIN request.headers
  /\ request.headers["Authorization"] = BearerPrefix \o <<32>> \o Secret
  /\ PromptCheck(request.body) = "ok"
  /\ HasResponse /\ Status = 401 /\ ~readBody

VersionText == "ebook-image-forge v5 (prompt<=2048 + resilient CORS + stronger no-text)"

\* C4 as stated: an OPTIONS request to any path, /__version included, is answered
\* 204 with no body.
C4_AsStated ==
  request.method = "OPTIONS" /\ Done =>
    HasResponse /\ Status = 204 /\ outcome.response.body = [t |-> "null"]

\* C4 amended: an OPTIONS request to any path other than /__version is answered 204
\* with no body in the handler's first step, before the /api/generate path check,
\* the method check, authentication and body parsing; an OPTIONS request to
\* /__version is answered 200 with the version text, like every other method there.
C4_OptionsFirst ==
  request.method = "OPTIONS" /\ pc # "start" =>
    /\ Done /\ HasResponse
    /\ ~readBody
    /\ aiCalls = <<>>
    /\ IF request.path = "/__version"
       THEN Status = 200 /\ outcome.response.body = [t |-> "text", v |-> VersionText]
       ELSE Status = 204 /\ outcome.response.body = [t |-> "null"]

\* A preflight to /api/generate without the credential a POST would need, and one
\* to an unknown path, are both answered 204.
C4_Witness ==
  /\ request.method = "OPTIONS" /\ request.path = "/api/generate"
  /\ SecretConfigured /\ "Authorization" \notin DOMAIN request.headers
  /\ HasResponse /\ Status = 204 /\ outcome.response.body = [t |-> "null"]

\* C5: every request ends in a response with a status in {200, 204, 400, 401, 404,
\* 405, 502}; unparseable JSON yields 400 "Invalid JSON"; every parseable body
\* whose prompt is missing or shorter than 3 after trimming, whatever JSON value the
\* body or the prompt is, yields 400 "prompt is required".
C5_EveryRequestAnswered ==
  Done =>
    /\ HasResponse
    /\ Status \in {200, 204, 400, 401, 404, 405, 502}
    /\ readBody /\ request.body.t = "invalid" =>
         Status = 400 /\ outcome.response.body = [t |-> "text", v |-> "Invalid JSON"]
    /\ readBody /\ request.body.t # "invalid"
         /\ ~(Field(request.body, "prompt").t = "str"
              /\ Len(Trim(Field(request.body, "prompt").v)) >= 3) =>
         Status = 400 /\ outcome.response.body = [t |-> "text", v |-> "prompt is required"]

Called == aiCalls # <<>>
SentInputs == aiCalls[1].inputs
SentPrompt == SentInputs["prompt"].v
UserPrompt == Field(request.body, "prompt").v
PromptIsValid ==
  /\ request.body.t = "obj"
  /\ Field(request.body, "prompt").t = "str"
  /\ Len(Trim(UserPrompt)) >= 3

\* The style clause the request selects
StyleLineOf == IF Field(request.body, "style") = JStr(Animated3dName) THEN animated3d ELSE storybook

\* The fixed clause block, in the order the claims give
FixedBlock ==
  cropSafe \o <<10>> \o StyleLineOf \o <<10>> \o antiText \o <<10>> \o avoidTextProps
    \o <<10>> \o baseSafety

\* Trimmed user prompt, blank line, fixed clause block
Concatenation == Trim(UserPrompt) \o <<10, 10>> \o FixedBlock

LastChars(s, n) == SubSeq(s, Len(s) - n + 1, Len(s))

RECURSIVE ParseDigits(_)
ParseDigits(s) ==
  IF s = <<>> THEN 0
  ELSE 10 * ParseDigits(SubSeq(s, 1, Len(s) - 1)) + (s[Len(s)] - 48)

RECURSIVE Pow10(_)
Pow10(n) == IF n = 0 THEN 1 ELSE 10 * Pow10(n - 1)

\* The number a decimal text such as "20" or "7.5" denotes, counted in quarters
ParseNumber(s) ==
  LET dots == {i \in DOMAIN s : s[i] = 46}
  IN IF dots = {} THEN 4 * ParseDigits(s)
     ELSE LET d == CHOOSE i \in dots : TRUE
              frac == SubSeq(s, d + 1, Len(s))
          IN 4 * ParseDigits(SubSeq(s, 1, d - 1)) + (4 * ParseDigits(frac)) \div Pow10(Len(frac))

IsDecimal(s) == s # <<>> /\ \A i \in DOMAIN s : s[i] \in 48..57

\* C6: the prompt sent to the backend is at most 2048 characters long; it is the
\* last 2048 characters of the concatenation when that is longer than 2048, and
\* the concatenation itself otherwise; X-Prompt-Chars of a 200 response is the
\* length of the prompt sent.
C6_TailPreserved ==
  Called =>
    /\ Len(SentPrompt) <= 2048
    /\ Len(Concatenation) > 2048 => SentPrompt = LastChars(Concatenation, 2048)
    /\ Len(Concatenation) <= 2048 => SentPrompt = Concatenation
    /\ HasResponse /\ Status = 200 =>
         /\ "X-Prompt-Chars" \in DOMAIN ResponseHeaders
         /\ IsDecimal(ResponseHeaders["X-Prompt-Chars"])
         /\ ParseDigits(ResponseHeaders["X-Prompt-Chars"]) = Len(SentPrompt)

\* An overlong concatenation was cut at the front and the 200 response reports 2048
C6_Witness ==
  /\ Called /\ Len(Concatenation) > 2048
  /\ SentPrompt = LastChars(Concatenation, 2048)
  /\ SentPrompt # SubSeq(Concatenation, 1, 2048)
  /\ HasResponse /\ Status = 200
  /\ ResponseHeaders["X-Prompt-Chars"] = <<50, 48, 52, 56>>

IntegerFields == {"steps", "width", "height", "num_steps"}
NumericFields == IntegerFields \cup {"guidance"}

\* Minimum, maximum and fallback of each numeric field, in quarters
FieldMin(f) == IF f \in {"width", "height"} THEN Num(256, 0) ELSE Num(1, 0)
FieldMax(f) ==
  CASE f = "steps" -> Num(8, 0)
    [] f \in {"width", "height"} -> Num(2048, 0)
    [] f \in {"num_steps", "guidance"} -> Num(20, 0)
FieldFallback(f) ==
  CASE f = "steps" -> Num(6, 0)
    [] f = "width" -> Num(1344, 0)
    [] f = "height" -> Num(768, 0)
    [] f = "num_steps" -> Num(20, 0)
    [] f = "guidance" -> Num(7, 2)

\* The integer nearest to q quarters, a half going upward
Nearest(q) ==
  CHOOSE r \in {4 * k : k \in ((q \div 4) - 1)..((q \div 4) + 1)} : r - 2 <= q /\ q < r + 2

\* The value C7 gives for input x of field f
Expected(f, x) ==
  IF x.t # "num" THEN FieldFallback(f)
  ELSE IF x.v < FieldMin(f) THEN FieldMin(f)
  ELSE IF x.v > FieldMax(f) THEN FieldMax(f)
  ELSE IF f \in IntegerFields THEN Nearest(x.v)
  ELSE x.v

Reclamped(f, v) ==
  IF f \in IntegerFields
  THEN clampInt(JNum(v), FieldMin(f), FieldMax(f), FieldFallback(f))
  ELSE clampNum(JNum(v), FieldMin(f), FieldMax(f), FieldFallback(f))

\* C7: every numeric parameter sent lies in its field's bounds and is the fallback,
\* the minimum, the maximum or the (rounded) input as the claim says; clamping it
\* again leaves it unchanged; a request with a valid prompt reaches the backend
\* whatever its numeric fields are, and is never answered with a client error.
C7_Clamped ==
  /\ Called =>
       /\ DOMAIN SentInputs \cap NumericFields \in
            {{"steps"}, {"width", "height", "num_steps", "guidance"}}
       /\ \A f \in DOMAIN SentInputs \cap NumericFields :
            /\ SentInputs[f].v >= FieldMin(f) /\ SentInputs[f].v <= FieldMax(f)
            /\ SentInputs[f].v = Expected(f, Field(request.body, f))
            /\ f \in IntegerFields => SentInputs[f].v % 4 = 0
            /\ Reclamped(f, SentInputs[f].v) = SentInputs[f].v
  /\ readBody /\ PromptIsValid /\ pc \in {"ai", "done"} =>
       /\ Called
       /\ HasResponse => Status \in {200, 502}

\* Scenario C: width 99999 is sent as 2048, guidance -5 as 1, num_steps defaults to 20
C7_Witness ==
  /\ Called
  /\ Field(request.body, "width") = JNum(Num(99999, 0))
  /\ Field(request.body, "guidance") = JNum(-Num(5, 0))
  /\ Field(request.body, "num_steps") = Undefined
  /\ SentInputs["width"].v = Num(2048, 0)
  /\ SentInputs["guidance"].v = Num(1, 0)
  /\ HasResponse /\ Status = 200
  /\ ResponseHeaders["X-Num-Steps"] = <<50, 48>>

\* What C8 says of the upstream call, but for the 200 responses: at most one call,
\* made only after routing, method check, authentication, JSON parsing and prompt
\* validation passed; none before a 204, 400, 401, 404 or 405 response; a call that
\* throws is answered 502 with the failure's message and is not repeated.
SingleUpstreamCall ==
  /\ Len(aiCalls) <= 1
  /\ Called =>
       /\ IsGenerate
       /\ ~SecretConfigured \/ BearerOfSecret
       /\ readBody
       /\ request.body.t # "invalid"
       /\ PromptIsValid
  /\ HasResponse /\ Status \in {204, 400, 401, 404, 405} => ~Called
  /\ aiOutcome.kind # "none" => Done /\ Len(aiCalls) = 1
  /\ aiOutcome.kind = "threw" =>
       /\ HasResponse /\ Status = 502
       /\ outcome.response.body.t = "text"
       /\ outcome.response.body.v =
            "Upstream AI error: " \o
              (CASE aiOutcome.value.t = "error" /\ aiOutcome.value.message # "" ->
                      aiOutcome.value.message
                 [] aiOutcome.value.t = "string" /\ aiOutcome.value.v # "" -> aiOutcome.value.v
                 [] aiOutcome.value.t = "error" /\ aiOutcome.value.message = "" -> "Error"
                 [] OTHER -> "AI run error")

\* C8 as stated: a 200 response is returned only after the single call returned.
C8_AsStated ==
  /\ SingleUpstreamCall
  /\ HasResponse /\ Status = 200 => Len(aiCalls) = 1 /\ aiOutcome.kind = "returned"

\* C8 amended: a 200 response to a POST to /api/generate is returned only after the
\* single call returned; the 200 response of /__version is returned with no call.
C8_OneCall ==
  /\ SingleUpstreamCall
  /\ HasResponse /\ Status = 200 =>
       IF request.path = "/__version"
       THEN ~Called /\ aiOutcome.kind = "none"
       ELSE IsGenerate /\ Len(aiCalls) = 1 /\ aiOutcome.kind = "returned"

\* The call threw and the request ended in 502 with the message, after one call
C8_Witness ==
  /\ aiOutcome.kind = "threw" /\ aiOutcome.value.t = "error"
  /\ aiOutcome.value.message = "3030: model overloaded"
  /\ HasResponse /\ Status = 502
  /\ outcome.response.body.v = "Upstream AI error: 3030: model overloaded"
  /\ Len(aiCalls) = 1

\* What C9 says of a 200 response: the flux path reports X-Model flux-1-schnell and
\* X-Steps, no X-Num-Steps and no X-Guidance; the sdxl path reports X-Model
\* sdxl-base-1.0, X-Num-Steps and X-Guidance, no X-Steps; each reported value is the
\* parameter sent. A valid request gets no client error whatever its model is.
BackendReported ==
  /\ Called => aiCalls[1].model \in {FluxModelId, SdxlModelId}
  /\ readBody /\ PromptIsValid /\ pc \in {"ai", "done"} =>
       Called /\ (HasResponse => Status \in {200, 502})
  /\ Called /\ HasResponse /\ Status = 200 =>
       IF aiCalls[1].model = FluxModelId
       THEN /\ DOMAIN ResponseHeaders \cap {"X-Model", "X-Steps", "X-Num-Steps", "X-Guidance"}
                 = {"X-Model", "X-Steps"}
            /\ ResponseHeaders["X-Model"] = "flux-1-schnell"
            /\ ParseNumber(ResponseHeaders["X-Steps"]) = SentInputs["steps"].v
       ELSE /\ DOMAIN ResponseHeaders \cap {"X-Model", "X-Steps", "X-Num-Steps", "X-Guidance"}
                 = {"X-Model", "X-Num-Steps", "X-Guidance"}
            /\ ResponseHeaders["X-Model"] = "sdxl-base-1.0"
            /\ ParseNumber(ResponseHeaders["X-Num-Steps"]) = SentInputs["num_steps"].v
            /\ ParseNumber(ResponseHeaders["X-Guidance"]) = SentInputs["guidance"].v

\* C9 as stated: the flux backend is called exactly when the model field is absent
\* or equals "flux"; every other model value goes to the sdxl backend.
C9_AsStated ==
  /\ BackendReported
  /\ Called =>
       (aiCalls[1].model = FluxModelId
          <=> Field(request.body, "model") \in {Undefined, JStr(FluxName)})

\* C9 amended: the flux backend is called exactly when the model field is absent,
\* is JSON null, or equals "flux"; every other model value goes to the sdxl backend.
C9_Dispatch ==
  /\ BackendReported
  /\ Called =>
       (aiCalls[1].model = FluxModelId
          <=> Field(request.body, "model") \in {Undefined, JNull, JStr(FluxName)})

\* An unrecognized model was sent to the sdxl backend and answered 200
C9_Witness ==
  /\ Called /\ Field(request.body, "model") = JStr(UnknownModelName)
  /\ aiCalls[1].model = SdxlModelId
  /\ HasResponse /\ Status = 200
  /\ ResponseHeaders["X-Model"] = "sdxl-base-1.0"
  /\ ResponseHeaders["X-Guidance"] = <<55, 46, 53>>
  /\ "X-Steps" \notin DOMAIN ResponseHeaders

\* C10: the fixed clause block is shorter than 2048 characters for both styles, and
\* the prompt sent is a (possibly empty) tail of the trimmed user prompt, the blank
\* line and the whole fixed clause block: truncation removes user characters only.
C10_ClausesKept ==
  /\ \A line \in {storybook, animated3d} :
       Len(cropSafe) + Len(line) + Len(antiText) + Len(avoidTextProps) + Len(baseSafety) + 4
         < 2048
  /\ Called =>
       LET cut == Len(Concatenation) - Len(SentPrompt)
       IN /\ cut >= 0 /\ cut <= Len(Trim(UserPrompt))
          /\ SentPrompt = SubSeq(Trim(UserPrompt), cut + 1, Len(Trim(UserPrompt)))
                            \o <<10, 10>> \o FixedBlock
          /\ LastChars(SentPrompt, Len(FixedBlock)) = FixedBlock

\* A user prompt too long for the budget lost its first characters; the animated3d
\* block is whole at the end of the prompt sent
C10_Witness ==
  /\ Called /\ StyleLineOf = animated3d
  /\ Len(Concatenation) > 2048 /\ Len(SentPrompt) = 2048
  /\ SentPrompt[1] = Trim(UserPrompt)[Len(Concatenation) - 2048 + 1]
  /\ LastChars(SentPrompt, Len(FixedBlock)) = FixedBlock
====
